---- MODULE Spec2Model ----
(***************************************************************************)
(* Model of scripts/fetch_posts.js: the batch that fetches the contiguous  *)
(* first-author posts of each HF News edition and caches them in           *)
(* news/editions/<edition>/posts.json.                                     *)
(*                                                                         *)
(* Text is modelled as a sequence of symbols.  A symbol is one character   *)
(* (",", the double quote, " ", "?", "&", "=", a digit) or one atomic      *)
(* chunk of text that the code never looks inside: "U" stands for an       *)
(* absolute URL prefix such as https://site/thread, "T" for the parameter  *)
(* name tid, "n" for any other parameter name, "a" and "x" for letters.    *)
(***************************************************************************)
EXTENDS Integers, Sequences, FiniteSets, TLC

\* ------------------------------------------------------------------ bounds
MaxEdition == 2
MaxPosts == 3
MaxRuns == 2
MaxLineLen == 4
MaxSelLen == 4

\* ----------------------------------------------------------- small helpers
RL == "MAX_HOURLY_CALLS_EXCEEDED"
QUOTE == "\""

Range(s) == {s[i] : i \in 1..Len(s)}

SeqsUpTo(S, n) == UNION {[1..k -> S] : k \in 0..n}

IsPrefix(p, s) == Len(p) <= Len(s) /\ \A i \in 1..Len(p) : p[i] = s[i]

\* String.prototype.includes at the granularity of words
Includes(msg, word) == \E i \in 1..Len(msg) : msg[i] = word

\* String.prototype.trim
RECURSIVE TrimLeft(_)
TrimLeft(s) == IF s # <<>> /\ Head(s) = " " THEN TrimLeft(Tail(s)) ELSE s

RECURSIVE TrimRight(_)
TrimRight(s) ==
    IF s # <<>> /\ s[Len(s)] = " " THEN TrimRight(SubSeq(s, 1, Len(s) - 1)) ELSE s

Trim(s) == TrimRight(TrimLeft(s))

\* Array.prototype.slice(0, n)
Slice0(s, n) == SubSeq(s, 1, IF Len(s) < n THEN Len(s) ELSE n)

\* ------------------------------------------------ parseCsvLineFirstN, readCsv
\* The character loop of parseCsvLineFirstN from position i (1-based); the
\* result is the pair of locals (fields, current) when the loop is left.
RECURSIVE CsvScan(_, _, _, _, _, _)
CsvScan(line, n, i, fields, current, inQuotes) ==
    IF i > Len(line) THEN [fields |-> fields, current |-> current]
    ELSE IF line[i] = QUOTE THEN
        IF inQuotes /\ i + 1 <= Len(line) /\ line[i + 1] = QUOTE
        THEN CsvScan(line, n, i + 2, fields, Append(current, QUOTE), inQuotes)
        ELSE CsvScan(line, n, i + 1, fields, current, ~inQuotes)
    ELSE IF line[i] = "," /\ ~inQuotes THEN
        IF Len(fields) + 1 = n
        THEN [fields |-> Append(fields, current), current |-> <<>>]
        ELSE CsvScan(line, n, i + 1, Append(fields, current), <<>>, inQuotes)
    ELSE CsvScan(line, n, i + 1, fields, Append(current, line[i]), inQuotes)

\* lines 78-80: the pending field is pushed only while fewer than n are collected
PushLast(fields, current, n) ==
    IF Len(fields) < n THEN Append(fields, current) ELSE fields

parseCsvLineFirstN(line, fieldsToExtract) ==
    LET r == CsvScan(line, fieldsToExtract, 1, <<>>, <<>>, FALSE)
        f == Slice0(PushLast(r.fields, r.current, fieldsToExtract), fieldsToExtract)
    IN  [i \in 1..Len(f) |-> Trim(f[i])]

\* A value that may be undefined (array destructuring past the end).
Undefined == [def |-> FALSE, s |-> <<>>]
Defined(s) == [def |-> TRUE, s |-> s]
At(f, i) == IF i <= Len(f) THEN Defined(f[i]) ELSE Undefined

\* readCsv on the file's lines (the text already split at line ends): empty
\* lines are dropped, the first remaining line is the header, every other line
\* gives one row {edition, link}.
RECURSIVE NonEmptyLines(_)
NonEmptyLines(lines) ==
    IF lines = <<>> THEN <<>>
    ELSE IF Len(Head(lines)) > 0 THEN <<Head(lines)>> \o NonEmptyLines(Tail(lines))
    ELSE NonEmptyLines(Tail(lines))

readCsv(fileLines) ==
    LET lines == NonEmptyLines(fileLines)
    IN  IF Len(lines) = 0 THEN <<>>
        ELSE [i \in 1..(Len(lines) - 1) |->
                LET f == parseCsvLineFirstN(lines[i + 1], 2)
                IN  [edition |-> At(f, 1), link |-> At(f, 2)]]

\* main, lines 246-250 and 254: the Map built from the rows (a later row with
\* the same edition overwrites an earlier one) and its lookup, "" when absent.
LinkOrEmpty(v) == IF v.def /\ v.s # <<>> THEN v.s ELSE <<>>

LookupLink(rows, key) ==
    LET hits == {i \in 1..Len(rows) : rows[i].edition.def /\ rows[i].edition.s = key}
    IN  IF hits = {} THEN <<>>
        ELSE LinkOrEmpty(rows[CHOOSE i \in hits : \A j \in hits : j <= i].link)

\* ------------------------------------------------------- extractTidFromLink
Digits == {"0", "1", "2", "3", "4", "5", "6", "7", "8", "9"}

NoTid == [found |-> FALSE, tid |-> <<>>]

IndexOf(s, c) ==
    IF \E i \in 1..Len(s) : s[i] = c
    THEN CHOOSE i \in 1..Len(s) : s[i] = c /\ \A j \in 1..(i - 1) : s[j] # c
    ELSE 0

\* new URL(link): only an absolute URL parses
UrlParses(link) == link # <<>> /\ link[1] = "U" /\ ~Includes(link, " ")

QueryOf(link) ==
    LET q == IndexOf(link, "?")
    IN  IF q = 0 THEN <<>> ELSE SubSeq(link, q + 1, Len(link))

\* the query split at "&" into name=value pairs
RECURSIVE SplitAmp(_)
SplitAmp(q) ==
    LET a == IndexOf(q, "&")
    IN  IF a = 0 THEN <<q>>
        ELSE <<SubSeq(q, 1, a - 1)>> \o SplitAmp(SubSeq(q, a + 1, Len(q)))

ParamName(p) ==
    LET e == IndexOf(p, "=") IN IF e = 0 THEN p ELSE SubSeq(p, 1, e - 1)

ParamValue(p) ==
    LET e == IndexOf(p, "=") IN IF e = 0 THEN <<>> ELSE SubSeq(p, e + 1, Len(p))

\* u.searchParams.get("tid"): the value of the first parameter named tid
SearchParamsGetTid(link) ==
    LET ps == SplitAmp(QueryOf(link))
        hits == {i \in 1..Len(ps) : ps[i] # <<>> /\ ParamName(ps[i]) = <<"T">>}
    IN  IF hits = {} THEN Undefined
        ELSE Defined(ParamValue(ps[CHOOSE i \in hits : \A j \in hits : j >= i]))

AllDigits(s) == Len(s) > 0 /\ \A i \in 1..Len(s) : s[i] \in Digits

AnyTidAccepted(link) ==
    IF link = <<>> \/ ~UrlParses(link) THEN NoTid
    ELSE LET tid == SearchParamsGetTid(link)
         IN  IF ~tid.def THEN NoTid ELSE [found |-> TRUE, tid |-> tid.s]

extractTidFromLink(link) ==
    IF link = <<>> THEN NoTid
    ELSE IF ~UrlParses(link) THEN NoTid
    ELSE LET tid == SearchParamsGetTid(link)
         IN  IF ~tid.def \/ tid.s = <<>> THEN NoTid
             ELSE IF ~AllDigits(tid.s) THEN NoTid
             ELSE [found |-> TRUE, tid |-> tid.s]

\* ------------------------------------------ selectContiguousFirstAuthorPosts
RECURSIVE SelectLoop(_, _, _, _)
SelectLoop(posts, firstUid, i, result) ==
    IF i > Len(posts) THEN result
    ELSE IF posts[i].uid = firstUid
         THEN SelectLoop(posts, firstUid, i + 1, Append(result, posts[i]))
         ELSE result

NoSelection(posts) == posts

SelectAllByFirstAuthor(posts) ==
    IF posts = <<>> THEN <<>>
    ELSE LET keep(p) == p.uid = posts[1].uid
         IN  SelectSeq(posts, keep)

selectContiguousFirstAuthorPosts(posts) ==
    IF Len(posts) = 0 THEN <<>>
    ELSE SelectLoop(posts, posts[1].uid, 1, <<>>)

\* ------------------------------------------------------------------ parseArgs
\* A command-line word.  dd: it starts with "--"; key and vals: for such a word,
\* the pieces of part.split("=") (key without the dashes, then the rest);
\* text: the whole word when it does not start with "--".
Flag(k) == [dd |-> TRUE, key |-> k, vals |-> <<>>, text |-> ""]
FlagEq(k, v) == [dd |-> TRUE, key |-> k, vals |-> <<v>>, text |-> ""]
Word(t) == [dd |-> FALSE, key |-> "", vals |-> <<>>, text |-> t]

\* JavaScript values held in args: undefined, true, or a string
JsUndefined == [t |-> "undefined", s |-> ""]
JsTrue == [t |-> "boolean", s |-> ""]
JsStr(s) == [t |-> "string", s |-> s]

Truthy(v) == v.t = "boolean" \/ (v.t = "string" /\ v.s # "")

\* a || b
OrElse(a, b) == IF Truthy(a) THEN a ELSE b

OptionKeys == {"start", "end", "token", "s", "e", "t"}

NoArgs == [k \in OptionKeys |-> JsUndefined]

SetArg(args, k, v) == IF k \in OptionKeys THEN [args EXCEPT ![k] = v] ELSE args

\* the loop of parseArgs from index i (1-based; the code starts at argv[2])
RECURSIVE ParseFrom(_, _, _)
ParseFrom(argv, i, args) ==
    IF i > Len(argv) THEN args
    ELSE LET part == argv[i] IN
         IF ~part.dd THEN ParseFrom(argv, i + 1, args)
         ELSE IF Len(part.vals) > 0
              THEN ParseFrom(argv, i + 1, SetArg(args, part.key, JsStr(part.vals[1])))
         ELSE IF i + 1 <= Len(argv) /\ ~argv[i + 1].dd /\ argv[i + 1].text # ""
              THEN ParseFrom(argv, i + 2, SetArg(args, part.key, JsStr(argv[i + 1].text)))
              ELSE ParseFrom(argv, i + 1, SetArg(args, part.key, JsTrue))

parseArgs(argv) == ParseFrom(argv, 3, NoArgs)

\* String(ed) for the edition numbers of the model, and Number(v) on the values
\* the command lines of the model carry (Number(true) is 1)
NumStr == <<"1", "2", "3", "4", "5", "6", "7", "8", "9">>

NaN == [finite |-> FALSE, n |-> 0]

ToNumber(v) ==
    IF v.t = "boolean" THEN [finite |-> TRUE, n |-> 1]
    ELSE IF \E i \in 1..Len(NumStr) : NumStr[i] = v.s
         THEN [finite |-> TRUE, n |-> CHOOSE i \in 1..Len(NumStr) : NumStr[i] = v.s]
         ELSE NaN

\* main, lines 215-236: the options and their validation
Options(argv) ==
    LET args == parseArgs(argv)
    IN  [start |-> OrElse(args["start"], args["s"]),
         end   |-> OrElse(args["end"], args["e"]),
         token |-> OrElse(args["token"], args["t"])]

Validate(argv) ==
    LET o == Options(argv)
    IN  IF ~Truthy(o.start) \/ ~Truthy(o.end) \/ ~Truthy(o.token) THEN "usage"
        ELSE IF ~ToNumber(o.start).finite \/ ~ToNumber(o.end).finite THEN "numeric"
        ELSE IF ToNumber(o.end).n < ToNumber(o.start).n THEN "order"
        ELSE "ok"

StartNum(argv) == ToNumber(Options(argv).start).n
EndNum(argv) == ToNumber(Options(argv).end).n

\* ------------------------------------------------------------ the cache files
\* The content of news/editions/<edition>/posts.json as the code reads it:
\* exists (fileExists), json (JSON.parse succeeds), obj (the value is truthy),
\* hasPosts (Array.isArray(existing.posts)), posts (that array).
NoFile == [exists |-> FALSE, json |-> FALSE, obj |-> FALSE, hasPosts |-> FALSE, posts |-> <<>>]
Garbage == [exists |-> TRUE, json |-> FALSE, obj |-> FALSE, hasPosts |-> FALSE, posts |-> <<>>]
JsonNull == [exists |-> TRUE, json |-> TRUE, obj |-> FALSE, hasPosts |-> FALSE, posts |-> <<>>]
ObjNoPosts == [exists |-> TRUE, json |-> TRUE, obj |-> TRUE, hasPosts |-> FALSE, posts |-> <<>>]
\* the file written at line 285: JSON.stringify({ posts: contiguous })
PostsFile(P) == [exists |-> TRUE, json |-> TRUE, obj |-> TRUE, hasPosts |-> TRUE, posts |-> P]

ExistsIsComplete(f) == f.exists

MoreThanOnePost(f) ==
    f.exists /\ f.json /\ f.obj /\ f.hasPosts /\ Len(f.posts) > 1

\* main, lines 264-278: the edition is skipped only for such a file
isComplete(f) ==
    f.exists /\ f.json /\ f.obj /\ f.hasPosts /\ Len(f.posts) > 0

\* ------------------------------------------------ postJson, fetchThreadPosts
Uids == {1, 2}

MkPosts(uids) == [i \in 1..Len(uids) |-> [pid |-> i, uid |-> uids[i]]]

\* the posts arrays a response may carry; the thread's first author is uid 1
PostSeqs(n) == {MkPosts(u) : u \in {v \in SeqsUpTo(Uids, n) : v = <<>> \/ v[1] = 1}}

\* A response body: text is the raw data as words; json tells whether it parses;
\* obj, success, message, hasPosts, posts describe the parsed value.
TextBody(words) ==
    [text |-> words, json |-> FALSE, obj |-> FALSE, success |-> "absent",
     message |-> "absent", hasPosts |-> FALSE, posts |-> <<>>]

NullBody ==
    [text |-> <<"null">>, json |-> TRUE, obj |-> FALSE, success |-> "absent",
     message |-> "absent", hasPosts |-> FALSE, posts |-> <<>>]

ObjBody(success, message, hasPosts, posts) ==
    [text |-> IF message = "absent" THEN <<"{", "}">> ELSE <<"{", message, "}">>,
     json |-> TRUE, obj |-> TRUE, success |-> success, message |-> message,
     hasPosts |-> hasPosts, posts |-> posts]

\* JSON.parse("{}"), the value postJson parses for an empty body
EmptyObject == ObjBody("absent", "absent", FALSE, <<>>)

\* with a posts array present, the combinations of success and message tried
PostsFlags == {<<"absent", "absent">>, <<"false", RL>>}

Bodies ==
    {TextBody(<<>>), TextBody(<<"x">>), TextBody(<<RL>>), NullBody}
    \cup {ObjBody(s, m, FALSE, <<>>) : s \in {"absent", "false"}, m \in {"absent", RL, "other"}}
    \cup {ObjBody(f[1], f[2], TRUE, P) : f \in PostsFlags, P \in PostSeqs(MaxPosts)}

\* the bodies tried with a status outside 2xx, where only the raw text matters
ErrorBodies ==
    {TextBody(<<>>), TextBody(<<"x">>), TextBody(<<RL>>),
     ObjBody("false", RL, FALSE, <<>>), ObjBody("false", "other", FALSE, <<>>)}

Responses ==
    {[kind |-> "transport", status |-> 0, body |-> TextBody(<<>>)]}
    \cup {[kind |-> "http", status |-> 200, body |-> b] : b \in Bodies}
    \cup {[kind |-> "http", status |-> 429, body |-> b] : b \in ErrorBodies}

Is2xx(status) == status >= 200 /\ status < 300

Err(name, message) == [name |-> name, message |-> message]
Resolved(v) == [ok |-> TRUE, value |-> v, err |-> Err("", <<>>)]
Rejected(e) == [ok |-> FALSE, value |-> NullBody, err |-> e]

\* postJson, lines 125-142: the promise's outcome for a response.  The message
\* of a JSON.parse failure names the offending token and at most a short
\* excerpt of the data, never a whole 25-character word of it, so it is
\* modelled without the body's words; the HTTP error message carries the raw
\* body whole.
postJson(resp) ==
    IF resp.kind = "transport" THEN Rejected(Err("Error", <<"ECONNRESET">>))
    ELSE IF Is2xx(resp.status) THEN
        IF resp.body.text = <<>> THEN Resolved(EmptyObject)
        ELSE IF resp.body.json THEN Resolved(resp.body)
        ELSE Rejected(Err("Error", <<"Failed to parse JSON response:", "Unexpected token">>))
    ELSE Rejected(Err("Error",
            <<"HTTP", ToString(resp.status)>>
            \o (IF resp.body.text = <<>> THEN <<"<no body>">> ELSE resp.body.text)))

Returned(posts) == [ok |-> TRUE, posts |-> posts, err |-> Err("", <<>>)]
Thrown(e) == [ok |-> FALSE, posts |-> <<>>, err |-> e]

\* fetchThreadPosts, lines 184-196
fetchThreadPosts(resp) ==
    LET r == postJson(resp) IN
    IF ~r.ok THEN Thrown(r.err)
    ELSE IF r.value.obj /\ r.value.success = "false" /\ r.value.message = RL
         THEN Thrown(Err("RateLimitError", <<r.value.message>>))
    ELSE IF ~r.value.obj \/ ~r.value.hasPosts
         THEN Thrown(Err("Error", <<"Unexpected API response shape (missing posts array)">>))
    ELSE Returned(r.value.posts)

NeverRateLimit(err) == FALSE

ByNameOnly(err) == err.name = "RateLimitError"

\* main, lines 290-294: the test that stops the batch
IsRateLimit(err) == err.name = "RateLimitError" \/ Includes(err.message, RL)

\* The kind of a response, in the terms of the fetch client's branches.
RespClass(resp) ==
    IF resp.kind = "transport" THEN "transport"
    ELSE IF ~Is2xx(resp.status) THEN "non2xx"
    ELSE IF resp.body.text # <<>> /\ ~resp.body.json THEN "nonjson"
    ELSE IF resp.body.text # <<>> /\ resp.body.obj /\ resp.body.success = "false"
            /\ resp.body.message = RL THEN "ratelimit"
    ELSE IF resp.body.text = <<>> \/ ~resp.body.obj \/ ~resp.body.hasPosts THEN "noposts"
    ELSE "ok"

\* ---------------------------------------------------------------- the inputs
\* news/editions.csv: exists, and its lines
Header == <<"E", ",", "L", ",", "N">>

Url(query) == <<"U", "?">> \o query

Row(edition, link) == <<NumStr[edition], ",">> \o link

MissingRegistry == [exists |-> FALSE, lines |-> <<>>]

RegistryFile(lines) == [exists |-> TRUE, lines |-> lines]

Registries ==
    { MissingRegistry,
      \* every edition has a thread
      RegistryFile(<<Header, Row(1, Url(<<"T", "=", "7">>)), Row(2, Url(<<"T", "=", "8">>)),
                     Row(3, Url(<<"T", "=", "9">>))>>),
      \* no query; a quoted link with a comma in it, followed by further fields
      RegistryFile(<<Header, Row(1, <<"U">>),
                     Row(2, <<QUOTE>> \o Url(<<"n", "=", "1", ",", "1", "&", "T", "=", "8">>)
                            \o <<QUOTE, ",", "a", ",", "x">>)>>),
      \* a blank line, an edition listed twice, a line with one field
      RegistryFile(<<Header, <<>>, Row(1, Url(<<"T", "=", "7", "a">>)),
                     Row(1, <<" ">> \o Url(<<"T", "=", "7">>) \o <<" ">>), <<"2">>>>),
      \* not a URL; an empty tid; the first of two tid parameters wins
      RegistryFile(<<Header, Row(1, <<"x", "?", "T", "=", "7">>), Row(2, Url(<<"T", "=">>)),
                     Row(3, Url(<<"T", "=", "a", "&", "T", "=", "9">>))>>) }

\* the registry used with the varied command lines: edition 1 has a thread
SparseRegistry ==
    RegistryFile(<<Header, Row(1, Url(<<"T", "=", "7">>)), Row(2, <<>>)>>)

Editions == 1..MaxEdition

EditionStrs == {NumStr[i] : i \in Editions}

\* the ways one option is written on the command line
OptionForms(long, short, values) ==
    {<<>>, <<Flag(long)>>, <<FlagEq(long, NumStr[1])>>, <<FlagEq(long, "")>>,
     <<Flag(short), Word(NumStr[1])>>, <<Word("-x"), Word(NumStr[1])>>}
    \cup {<<Flag(long), Word(v)>> : v \in values}

CommandLines ==
    {<<Word("node"), Word("fetch_posts.js")>> \o a \o b \o c :
        a \in OptionForms("start", "s", EditionStrs \cup {"abc"}),
        b \in OptionForms("end", "e", EditionStrs \cup {"abc"}),
        c \in OptionForms("token", "t", {"tok"})}

PlainCommandLines ==
    {<<Word("node"), Word("fetch_posts.js"), Flag("start"), Word(a),
       Flag("end"), Word(b), Flag("token"), Word("tok")>> :
        a \in EditionStrs, b \in EditionStrs}

InitFiles == {NoFile, Garbage, JsonNull, ObjNoPosts, PostsFile(<<>>), PostsFile(MkPosts(<<2>>))}

\* ------------------------------------------------------------------- state
VARIABLES
    argv,        \* process.argv
    registry,    \* news/editions.csv
    cache,       \* edition -> content of news/editions/<edition>/posts.json
    pc,          \* "start", "loop", "fetching" (awaiting the response), "done", "exit"
    exitCode,    \* the process's exit status, -1 while it runs
    rows,        \* main's rows (readCsv's result), from which editionToLink is built
    startNum, endNum, ed,   \* main's locals
    inflight,    \* the requests sent and not yet answered
    log,         \* the last line printed and what caused it
    run,         \* which invocation of the script this is
    registryRead, \* this run has read the registry
    processed,   \* the editions whose loop body has begun in this run, in order
    reads,       \* the editions whose cache file this run has tested or read
    written,     \* the editions whose cache file this run has written
    calls,       \* the network requests this run has sent
    fin, fout, fpc  \* input, output and position of a pure function under test

vars == <<argv, registry, cache, pc, exitCode, rows, startNum, endNum, ed, inflight, log,
          run, registryRead, processed, reads, written, calls, fin, fout, fpc>>

fvars == <<fin, fout, fpc>>

\* A log line: the edition it is about, its text, and for a line that reports a
\* response, the response's kind, whether its raw body holds the rate-limit
\* text, the posts it returned and the number of posts written.
Line(e, what) ==
    [e |-> e, what |-> what, cls |-> "none", rl |-> FALSE, got |-> <<>>, n |-> 0]

ResponseLine(e, what, resp, got, n) ==
    [e |-> e, what |-> what, cls |-> RespClass(resp),
     rl |-> Includes(resp.body.text, RL), got |-> got, n |-> n]

NoLog == Line(0, "none")

RunStart ==
    /\ pc = "start"
    /\ exitCode = -1
    /\ rows = <<>>
    /\ startNum = 0 /\ endNum = 0 /\ ed = 0
    /\ inflight = {}
    /\ log = NoLog
    /\ registryRead = FALSE
    /\ processed = <<>>
    /\ reads = {} /\ written = {}
    /\ calls = 0

\* the caches a batch may find: nothing cached, or one edition's file present
InitCaches ==
    {[e \in Editions |-> IF e = d THEN f ELSE NoFile] : d \in Editions, f \in InitFiles}

Init ==
    /\ \/ /\ argv \in PlainCommandLines
          /\ registry \in Registries
          /\ cache \in InitCaches
       \/ /\ argv \in CommandLines
          /\ registry = SparseRegistry
          /\ cache = [e \in Editions |-> NoFile]
    /\ run = 1
    /\ RunStart
    /\ fin = <<>> /\ fout = <<>> /\ fpc = "idle"

\* ------------------------------------------------------------------ main
\* lines 220-236: a rejected command line
UsageError ==
    /\ pc = "start"
    /\ Validate(argv) # "ok"
    /\ pc' = "exit"
    /\ exitCode' = 1
    /\ log' = Line(0, Validate(argv))
    /\ UNCHANGED <<argv, registry, cache, rows, startNum, endNum, ed, inflight, run,
                   registryRead, processed, reads, written, calls, fvars>>

\* lines 238-242
RegistryMissing ==
    /\ pc = "start"
    /\ Validate(argv) = "ok"
    /\ ~registry.exists
    /\ pc' = "exit"
    /\ exitCode' = 1
    /\ log' = Line(0, "noregistry")
    /\ UNCHANGED <<argv, registry, cache, rows, startNum, endNum, ed, inflight, run,
                   registryRead, processed, reads, written, calls, fvars>>

\* lines 215-252: the arguments are accepted, the registry is read, the loop starts
StartBatch ==
    /\ pc = "start"
    /\ Validate(argv) = "ok"
    /\ registry.exists
    /\ rows' = readCsv(registry.lines)
    /\ registryRead' = TRUE
    /\ startNum' = StartNum(argv)
    /\ endNum' = EndNum(argv)
    /\ ed' = StartNum(argv)
    /\ pc' = "loop"
    /\ UNCHANGED <<argv, registry, cache, exitCode, inflight, log, run, processed, reads,
                   written, calls, fvars>>

SameEdition(e) == e

\* line 252: ed++
NextEdition(e) == e + 1

\* lines 253-255
editionKey == <<NumStr[ed]>>
CurrentTid == extractTidFromLink(LookupLink(rows, editionKey))

\* line 252: the loop ends, main returns
Finish ==
    /\ pc = "loop"
    /\ ed > endNum
    /\ pc' = "done"
    /\ exitCode' = 0
    /\ UNCHANGED <<argv, registry, cache, rows, startNum, endNum, ed, inflight, log, run,
                   registryRead, processed, reads, written, calls, fvars>>

\* lines 259-262
NoTidFound ==
    /\ pc = "loop"
    /\ ed <= endNum
    /\ ~CurrentTid.found
    /\ log' = Line(ed, "no tid found")
    /\ processed' = Append(processed, ed)
    /\ ed' = NextEdition(ed)
    /\ UNCHANGED <<argv, registry, cache, pc, exitCode, rows, startNum, endNum, inflight,
                   run, registryRead, reads, written, calls, fvars>>

\* lines 264-274
SkipCached ==
    /\ pc = "loop"
    /\ ed <= endNum
    /\ CurrentTid.found
    /\ isComplete(cache[ed])
    /\ reads' = reads \cup {ed}
    /\ log' = Line(ed, "skipping")
    /\ processed' = Append(processed, ed)
    /\ ed' = NextEdition(ed)
    /\ UNCHANGED <<argv, registry, cache, pc, exitCode, rows, startNum, endNum, inflight,
                   run, registryRead, written, calls, fvars>>

\* lines 264-281 and 184: the request is sent and main awaits the response
IssueFetch ==
    /\ pc = "loop"
    /\ ed <= endNum
    /\ CurrentTid.found
    /\ ~isComplete(cache[ed])
    /\ reads' = reads \cup {ed}
    /\ processed' = Append(processed, ed)
    /\ inflight' = inflight \cup {[e |-> ed, tid |-> CurrentTid.tid]}
    /\ calls' = calls + 1
    /\ pc' = "fetching"
    /\ UNCHANGED <<argv, registry, cache, exitCode, rows, startNum, endNum, ed, log, run,
                   registryRead, written, fvars>>

Answered == {q \in inflight : q.e # ed}

\* lines 281-288
FetchSucceeded(resp) ==
    /\ pc = "fetching"
    /\ fetchThreadPosts(resp).ok
    /\ LET posts == fetchThreadPosts(resp).posts
           contiguous == selectContiguousFirstAuthorPosts(posts)
       IN  /\ cache' = [cache EXCEPT ![ed] = PostsFile(contiguous)]
           /\ log' = ResponseLine(ed, "fetched", resp, posts, Len(contiguous))
    /\ written' = written \cup {ed}
    /\ inflight' = Answered
    /\ ed' = NextEdition(ed)
    /\ pc' = "loop"
    /\ UNCHANGED <<argv, registry, exitCode, rows, startNum, endNum, run, registryRead,
                   processed, reads, calls, fvars>>

\* lines 289-297
RateLimitHalt(resp) ==
    /\ pc = "fetching"
    /\ ~fetchThreadPosts(resp).ok
    /\ IsRateLimit(fetchThreadPosts(resp).err)
    /\ log' = ResponseLine(ed, "rate limit reached", resp, <<>>, 0)
    /\ inflight' = Answered
    /\ pc' = "exit"
    /\ exitCode' = 1
    /\ UNCHANGED <<argv, registry, cache, rows, startNum, endNum, ed, run, registryRead,
                   processed, reads, written, calls, fvars>>

\* lines 289-299
FetchFailed(resp) ==
    /\ pc = "fetching"
    /\ ~fetchThreadPosts(resp).ok
    /\ ~IsRateLimit(fetchThreadPosts(resp).err)
    /\ log' = ResponseLine(ed, "fetch failed", resp, <<>>, 0)
    /\ inflight' = Answered
    /\ ed' = NextEdition(ed)
    /\ pc' = "loop"
    /\ UNCHANGED <<argv, registry, cache, exitCode, rows, startNum, endNum, run,
                   registryRead, processed, reads, written, calls, fvars>>

\* the script is invoked again with the same command line and registry
Rerun ==
    /\ pc \in {"done", "exit"}
    /\ run < MaxRuns
    /\ run' = run + 1
    /\ pc' = "start"
    /\ exitCode' = -1
    /\ rows' = <<>>
    /\ startNum' = 0 /\ endNum' = 0 /\ ed' = 0
    /\ inflight' = {}
    /\ log' = NoLog
    /\ registryRead' = FALSE
    /\ processed' = <<>>
    /\ reads' = {} /\ written' = {}
    /\ calls' = 0
    /\ UNCHANGED <<argv, registry, cache, fvars>>

Next ==
    \/ UsageError
    \/ RegistryMissing
    \/ StartBatch
    \/ Finish
    \/ NoTidFound
    \/ SkipCached
    \/ IssueFetch
    \/ \E resp \in Responses : FetchSucceeded(resp)
    \/ \E resp \in Responses : RateLimitHalt(resp)
    \/ \E resp \in Responses : FetchFailed(resp)
    \/ Rerun

Spec == Init /\ [][Next]_vars

\* ------------------------------------------- the pure functions on their own
\* Specifications that apply one function to every input of a bounded set; the
\* batch does not run in them.
Idle ==
    /\ argv = <<Word("node"), Word("fetch_posts.js")>>
    /\ registry = MissingRegistry
    /\ cache = [e \in Editions |-> NoFile]
    /\ run = 1
    /\ RunStart

mainvars == <<argv, registry, cache, pc, exitCode, rows, startNum, endNum, ed, inflight,
              log, run, registryRead, processed, reads, written, calls>>

CsvAlphabet == {"a", ",", QUOTE, " "}

\* the non-blank registry lines of the model
CsvLines == SeqsUpTo(CsvAlphabet, MaxLineLen) \ {<<>>}

InitCsv == Idle /\ fin \in CsvLines /\ fout = <<>> /\ fpc = "ready"

\* readCsv, line 92
ParseLine ==
    /\ fpc = "ready"
    /\ fout' = parseCsvLineFirstN(fin, 2)
    /\ fpc' = "done"
    /\ UNCHANGED <<mainvars, fin>>

NextCsv == ParseLine

SpecCsv == InitCsv /\ [][NextCsv]_vars

SelUids == {1, 2, 3}

SelInputs == {MkPosts(u) : u \in SeqsUpTo(SelUids, MaxSelLen)}

InitSel == Idle /\ fin \in SelInputs /\ fout = <<>> /\ fpc = "ready"

\* main, line 282
Select ==
    /\ fpc = "ready"
    /\ fout' = selectContiguousFirstAuthorPosts(fin)
    /\ fpc' = "done"
    /\ UNCHANGED <<mainvars, fin>>

NextSel == Select

SpecSel == InitSel /\ [][NextSel]_vars

\* ================================================================== claims
\* the registry's link of edition e, as main looks it up
LinkOf(e) == LookupLink(readCsv(registry.lines), <<NumStr[e]>>)

\* a file holding a non-empty posts array
NonEmptyCache(f) == f.exists /\ f.json /\ f.obj /\ f.hasPosts /\ f.posts # <<>>

\* the step leaves every cache file as it is
CacheUntouched == \A e \in Editions : cache'[e] = cache[e]

\* c is the longest prefix of P whose elements all have the uid of P's first
IsFirstAuthorRun(c, P) ==
    /\ IsPrefix(c, P)
    /\ \A i \in 1..Len(c) : c[i].uid = P[1].uid
    /\ P # <<>> => c # <<>>
    /\ Len(c) < Len(P) => P[Len(c) + 1].uid # P[1].uid

\* ---- C1
\* C1: when the fetch for edition e is answered by the rate-limit failure (2xx,
\* JSON, success=false, message MAX_HOURLY_CALLS_EXCEEDED), the run stops at e
\* with exit status 1: no file is written for e, and no edition after e is
\* looked up, has its cache tested, is fetched or is written in that run.
C1_RateLimitHalts ==
    log.cls = "ratelimit" =>
        /\ pc = "exit" /\ exitCode = 1
        /\ log.what = "rate limit reached"
        /\ log.e = ed
        /\ ed \notin written
        /\ inflight = {}
        /\ \A e \in Editions : e > ed =>
              e \notin Range(processed) /\ e \notin reads /\ e \notin written

\* a halt with an edition left that has a thread and no complete cache
C1_Witness ==
    /\ log.cls = "ratelimit" /\ pc = "exit"
    /\ ed < endNum
    /\ extractTidFromLink(LinkOf(ed + 1)).found
    /\ ~isComplete(cache[ed + 1])

\* ---- C2
\* the failure was logged for its edition and the batch went on to the next
C2_NonFatal ==
    /\ log.what = "fetch failed"
    /\ pc # "exit" /\ exitCode # 1
    /\ ed = log.e + 1

C2_Halted == log.what = "rate limit reached" /\ pc = "exit" /\ exitCode = 1

C3_WithTid ==
    IF registryRead
    THEN {e \in startNum..endNum : extractTidFromLink(LookupLink(rows, <<NumStr[e]>>)).found}
    ELSE {}

\* the run has its range, and every edition of it has no tid or a non-empty
\* cache file
C3_AllDone == registryRead /\ \A e \in C3_WithTid : NonEmptyCache(cache[e])

\* C3 as stated: whatever the registry, the range and the responses, a second
\* run over the same range sends no network request (here for the command
\* lines that give start, end and token in the plain form).
C3_Original == (run >= 2 /\ argv \in PlainCommandLines) => calls = 0

\* C3 amended: once every edition of the range has no tid or a non-empty cache
\* file, that stays so and no network request is sent any more, in that run or
\* a later one over the same range (between runs and before the loop starts no
\* file changes); a first run leaves the range in that condition only if it
\* was not halted and each of its fetches returned a non-empty posts array.
C3_Amended ==
    [][ /\ C3_AllDone =>
              /\ \A e \in C3_WithTid : NonEmptyCache(cache'[e])
              /\ calls' <= calls
        /\ pc \in {"start", "done", "exit"} => (cache' = cache /\ calls' = 0)
      ]_vars

\* a second run that ended without a request, skipping a file an earlier run wrote
C3_Witness ==
    /\ run = 2 /\ pc = "done" /\ calls = 0
    /\ C3_AllDone
    /\ \E e \in reads : cache[e].posts = MkPosts(<<1>>)

C5_Original ==
    fpc = "done" =>
        /\ IsPrefix(fout, fin)
        /\ \A i \in 1..Len(fout) : fout[i].uid = fin[1].uid
        /\ \A k \in 0..(Len(fin) - 1) : fin[k + 1].uid # fin[1].uid => Len(fout) = k
        /\ fin = <<>> => fout = <<>>

\* C5 amended: as stated, with k the first position whose element differs in uid
\* from element 0 (elements 0..k-1 all have element 0's uid); when no element
\* differs the result is P.
C5_Amended ==
    fpc = "done" =>
        /\ IsPrefix(fout, fin)
        /\ \A i \in 1..Len(fout) : fout[i].uid = fin[1].uid
        /\ \A k \in 0..(Len(fin) - 1) :
              (/\ fin[k + 1].uid # fin[1].uid
               /\ \A j \in 1..k : fin[j].uid = fin[1].uid) => Len(fout) = k
        /\ (\A i \in 1..Len(fin) : fin[i].uid = fin[1].uid) => fout = fin
        /\ fin = <<>> => fout = <<>>

\* posts of the first author come back after another author's post
C5_Witness ==
    /\ fpc = "done"
    /\ Len(fout) >= 1 /\ Len(fout) + 1 < Len(fin)
    /\ fin[Len(fin)].uid = fin[1].uid

\* ---- C6
\* the link is empty (or the edition absent), is no URL, or has no parameter
\* named tid whose value is one or more digits
C6_NoValidTid(link) ==
    \/ link = <<>>
    \/ ~UrlParses(link)
    \/ LET ps == SplitAmp(QueryOf(link))
       IN  \A i \in 1..Len(ps) : ~(ParamName(ps[i]) = <<"T">> /\ AllDigits(ParamValue(ps[i])))

\* C6: an edition of the range whose link is absent, empty, no URL or without a
\* digits-only tid parameter gets the line "no tid found" and nothing else: its
\* cache file is neither tested, read nor written and no request is sent for
\* it, whatever the file holds.
C6_NoTidNoCache ==
    \A i \in 1..Len(processed) :
        C6_NoValidTid(LinkOf(processed[i])) =>
            /\ processed[i] \notin reads
            /\ processed[i] \notin written
            /\ \A q \in inflight : q.e # processed[i]
            /\ i = Len(processed) => (log.e = processed[i] /\ log.what = "no tid found")

\* a no-tid edition with a link in the registry and a file in the cache
C6_Witness ==
    /\ log.what = "no tid found"
    /\ LinkOf(log.e) # <<>>
    /\ cache[log.e].exists

\* ---- C7
C7_Missing(v) == v.t # "string" \/ v.s = ""

\* an option has no value, start or end is not a number, or end < start
C7_Invalid ==
    LET o == Options(argv) IN
    \/ C7_Missing(o.start) \/ C7_Missing(o.end) \/ C7_Missing(o.token)
    \/ ~ToNumber(o.start).finite \/ ~ToNumber(o.end).finite
    \/ ToNumber(o.end).n < ToNumber(o.start).n

C7_Rejected == pc = "exit" /\ exitCode = 1 /\ log.what \in {"usage", "numeric", "order"}

\* C7: a command line on which start, end or token has no value, or start or
\* end is not numeric, or end < start, is rejected with a message and exit
\* status 1 before the registry is read, an edition is processed or a request
\* is sent; a command line that gives all three validly is not rejected.
C7_UsageError ==
    /\ C7_Invalid =>
          /\ pc \in {"start", "exit"}
          /\ pc = "exit" => C7_Rejected
          /\ ~registryRead /\ processed = <<>> /\ calls = 0
    /\ ~C7_Invalid => ~C7_Rejected

\* ---- C8
\* C8: in one run the editions are taken one at a time in ascending order from
\* start, each once; an edition's steps begin only when the previous edition's
\* fetch has been answered and its file written, so at most one request is in
\* flight; a run that ends without a halt has processed start through end.
C8_Sequential ==
    /\ \A i \in 1..Len(processed) : processed[i] = startNum + i - 1
    /\ Cardinality(inflight) <= 1
    /\ pc = "loop" => (inflight = {} /\ Len(processed) = ed - startNum)
    /\ pc = "fetching" =>
          /\ inflight = {[e |-> ed, tid |-> extractTidFromLink(LinkOf(ed)).tid]}
          /\ Len(processed) = ed - startNum + 1
    /\ written \subseteq Range(processed)
    /\ reads \subseteq Range(processed)
    /\ calls <= Len(processed)
    /\ pc = "done" =>
          /\ exitCode = 0
          /\ Range(processed) = startNum..endNum
          /\ Len(processed) = endNum - startNum + 1
    /\ (pc = "exit" /\ processed # <<>>) => log.what = "rate limit reached"

\* a finished run over several editions, with a fetch among them
C8_Witness ==
    /\ pc = "done"
    /\ Len(processed) >= 2
    /\ written # {}
    /\ calls >= 2

\* ---- C9
\* the line has no comma outside quotes
RECURSIVE C9_NoSeparator(_, _)
C9_NoSeparator(line, inQuotes) ==
    IF line = <<>> THEN TRUE
    ELSE IF Head(line) = QUOTE THEN C9_NoSeparator(Tail(line), ~inQuotes)
    ELSE IF Head(line) = "," /\ ~inQuotes THEN FALSE
    ELSE C9_NoSeparator(Tail(line), inQuotes)

\* C9: for every non-blank line the extractor yields exactly two fields, the
\* second one the empty string when the line has a single field.
C9_TwoFields ==
    fpc = "done" =>
        /\ Len(fout) = 2
        /\ C9_NoSeparator(fin, FALSE) => fout[2] = <<>>

\* ---- C10
\* C10: a step changes the cache file of edition e only if it is the step in
\* which e's own fetch succeeded, and the file then holds exactly the
\* contiguous first-author prefix of the posts returned; the lines "no tid
\* found", "skipping", "fetch failed" and "rate limit reached" come with no
\* change to any cache file.
C10_OnlyOwnFetchWrites ==
    [][ /\ \A e \in Editions : cache'[e] # cache[e] =>
              /\ e = ed /\ pc = "fetching"
              /\ log'.what = "fetched" /\ log'.e = e
        /\ (pc = "fetching" /\ log'.what = "fetched") =>
              /\ cache'[ed].exists /\ cache'[ed].json /\ cache'[ed].obj
              /\ cache'[ed].hasPosts
              /\ IsFirstAuthorRun(cache'[ed].posts, log'.got)
              /\ log'.n = Len(cache'[ed].posts)
              /\ \A e \in Editions : e # ed => cache'[e] = cache[e]
        /\ (log' # log /\ log'.what # "fetched") => CacheUntouched
      ]_vars

\* a fetch that returned a later author's post wrote only the first author's run
C10_Witness ==
    /\ log.what = "fetched"
    /\ log.n >= 1 /\ log.n < Len(log.got)
    /\ cache[log.e].posts = SubSeq(log.got, 1, log.n)

====
